---- MODULE Spec2Model ----
(***************************************************************************)
(* dsgvo-downloader: one run of main() synchronises the incident list of   *)
(* the remote registry into the incidents table.  The model follows        *)
(* src/main.rs: every await point that can return Err is a step, the       *)
(* database tables and the remote registry are the shared state, and the   *)
(* run-local values (existing_ids, current_incidents, new_incidents, the   *)
(* loop position) are the variables of the run.                            *)
(***************************************************************************)
EXTENDS Naturals, Sequences, FiniteSets

\* ---------------------------------------------------------------- bounds
MaxId      == 3      \* incident ids are 1..MaxId
MaxSnapLen == 3      \* longest list the registry serves
MaxRuns    == 2      \* invocations of the binary in one behaviour

Ids == 1..MaxId

\* Values of the `reference` string of a detail payload: two that are JSON
\* and one that is not.
RefJson  == {"j1", "j2"}
RefBad   == "notjson"

\* The tables main.rs needs (verify_tables, lines 81-83).
RequiredTables == {"incidents", "incident_history"}

\* ------------------------------------------------------- remote registry
RECURSIVE SeqsUpTo(_)
SeqsUpTo(n) ==
    IF n = 0 THEN {<<>>}
    ELSE LET S == SeqsUpTo(n - 1)
         IN  S \cup {Append(s, x) : s \in {t \in S : Len(t) = n - 1}, x \in Ids}

\* A body of the list endpoint: a JSON array of incident summaries (each
\* summary is represented by its incidentID), JSON of another shape, or text
\* that is not JSON at all.
Bodies ==
    {[kind |-> "incidents", ids |-> s] : s \in SeqsUpTo(MaxSnapLen)}
        \cup {[kind |-> "mismatch", ids |-> <<>>], [kind |-> "notjson", ids |-> <<>>]}

IsJson(b) == b.kind # "notjson"

NoBody == [kind |-> "none", ids |-> <<>>]

\* ------------------------------------------------------------ variables
VARIABLES
    tables,            \* tables present in schema public
    incidents,         \* table incidents: set of rows
    incident_history,  \* table incident_history: sequence of archived bodies
    remote,            \* body the list endpoint currently serves
    run,               \* number of runs started
    pc,                \* position of the current run in main()
    result,            \* what main() returned: "none", "Ok", "Err"
    err,               \* context of the error main() returned
    existing_ids,      \* main: existing_ids
    body,              \* fetch_incidents: trimmed body
    current_incidents, \* main: current_incidents
    new_incidents,     \* main: new_incidents
    i,                 \* process_new_incidents: position of the for loop
    detail,            \* process_incident: detail.reference of the fetched detail
    inFlight,          \* detail requests sent and not yet answered
    listFetches,       \* list requests issued by this run
    fetched,           \* ids of the detail requests issued by this run
    inserted,          \* ids of the rows this run inserted into incidents
    archived,          \* rows this run appended to incident_history
    parsed,            \* this run attempted to parse the list body
    delays,            \* sleeps of request_delay this run completed
    remoteChanged,     \* the registry changed its list since the last run ended
    upstreamSame,      \* this run is served the list the previous run was served
    prevOk,            \* there was a previous run and it returned Ok
    pending            \* ids the previous run found new and left without a row

dbVars     == <<tables, incidents, incident_history>>
localVars  == <<existing_ids, body, current_incidents, new_incidents, i, detail>>
logVars    == <<inFlight, listFetches, fetched, inserted, archived, parsed, delays>>
crossVars  == <<remote, run, remoteChanged, upstreamSame, prevOk, pending>>
vars == <<tables, incidents, incident_history, remote, run, pc, result, err,
          existing_ids, body, current_incidents, new_incidents, i, detail,
          inFlight, listFetches, fetched, inserted, archived, parsed, delays,
          remoteChanged, upstreamSame, prevOk, pending>>

\* ------------------------------------------------------------- helpers
StoreIds == {r.incident_id : r \in incidents}

Row(id, ref) == [incident_id |-> id, references |-> ref]

Range(s) == {s[k] : k \in 1..Len(s)}

\* All orders in which SELECT incident_id FROM incidents may return S.
Orders(S) ==
    {s \in [1..Cardinality(S) -> S] : \A a, b \in 1..Cardinality(S) : s[a] = s[b] => a = b}

\* Variant of collect that skips the first id read.
collect_skip_first(ids) ==
    IF ids = <<>> THEN {} ELSE {ids[k] : k \in 2..Len(ids)}

\* ids.into_iter().collect() into a HashSet (line 105).
RECURSIVE collect(_)
collect(ids) ==
    IF ids = <<>> THEN {} ELSE {Head(ids)} \cup collect(Tail(ids))

\* Variant of the table check that is content with one table.
TablesMissing_none(found) == Cardinality(found) = 0

\* tables.len() != 2 bails (line 91).
TablesMissing(found) == Cardinality(found) # 2

\* Variant of the filter that keeps every record.
FilterNew_all(current, existing) == current

\* Variant of the filter that loses its first result.
FilterNew_skip_first(current, existing) ==
    LET kept == SelectSeq(current, LAMBDA id : id \notin existing)
    IN  IF kept = <<>> THEN <<>> ELSE Tail(kept)

\* Variant of the filter without the negation.
FilterNew_kept(current, existing) ==
    SelectSeq(current, LAMBDA id : id \in existing)

\* current_incidents.into_iter().filter(|incident|
\*     !existing_ids.contains(&incident.incident_id)).collect()  (lines 273-276)
FilterNew(current, existing) ==
    SelectSeq(current, LAMBDA id : id \notin existing)

\* $1::jsonb accepts only JSON text (line 135).
JsonbCastOk(content) == IsJson(content)

\* main returns Err(context): the process ends with an error.
Fail(context) ==
    /\ pc' = "done"
    /\ result' = "Err"
    /\ err' = context

Goto(p) ==
    /\ pc' = p
    /\ UNCHANGED <<result, err>>

\* ----------------------------------------------------------------- Init
Init ==
    /\ tables \in SUBSET RequiredTables
    /\ \E S \in SUBSET Ids :
          incidents = IF "incidents" \in tables THEN {Row(id, "j1") : id \in S} ELSE {}
    /\ incident_history = <<>>
    /\ remote \in Bodies
    /\ run = 0
    /\ pc = "idle"
    /\ result = "none"
    /\ err = "none"
    /\ existing_ids = {}
    /\ body = NoBody
    /\ current_incidents = <<>>
    /\ new_incidents = <<>>
    /\ i = 0
    /\ detail = "none"
    /\ inFlight = 0
    /\ listFetches = 0
    /\ fetched = <<>>
    /\ inserted = <<>>
    /\ archived = 0
    /\ parsed = FALSE
    /\ delays = 0
    /\ remoteChanged = FALSE
    /\ upstreamSame = TRUE
    /\ prevOk = FALSE
    /\ pending = {}

\* -------------------------------------------------------------- actions

\* The scheduler starts the binary: main() begins with fresh locals.
StartRun ==
    /\ pc \in {"idle", "done"}
    /\ run < MaxRuns
    /\ run' = run + 1
    /\ prevOk' = (result = "Ok")
    /\ pending' = Range(new_incidents) \ StoreIds
    /\ upstreamSame' = ~remoteChanged
    /\ remoteChanged' = FALSE
    /\ pc' = "connect"
    /\ result' = "none"
    /\ err' = "none"
    /\ existing_ids' = {}
    /\ body' = NoBody
    /\ current_incidents' = <<>>
    /\ new_incidents' = <<>>
    /\ i' = 0
    /\ detail' = "none"
    /\ inFlight' = 0
    /\ listFetches' = 0
    /\ fetched' = <<>>
    /\ inserted' = <<>>
    /\ archived' = 0
    /\ parsed' = FALSE
    /\ delays' = 0
    /\ UNCHANGED <<dbVars, remote>>

\* Between two runs the registry publishes another list.
RemoteChange ==
    /\ pc = "done"
    /\ run < MaxRuns
    /\ ~remoteChanged
    /\ \E b \in Bodies \ {remote} : remote' = b
    /\ remoteChanged' = TRUE
    /\ UNCHANGED <<dbVars, run, upstreamSame, prevOk, pending, pc, result, err,
                   localVars, logVars>>

\* setup_database (lines 67-76): connecting may fail.
setup_database ==
    /\ pc = "connect"
    /\ \/ Goto("verify")
       \/ Fail("Failed to connect to database")
    /\ UNCHANGED <<dbVars, crossVars, localVars, logVars>>

\* verify_tables (lines 78-95).
verify_tables ==
    /\ pc = "verify"
    /\ \/ Fail("Failed to verify tables")
       \/ LET found == tables \cap RequiredTables
          IN  IF TablesMissing(found)
              THEN Fail("Missing required database tables")
              ELSE Goto("existing")
    /\ UNCHANGED <<dbVars, crossVars, localVars, logVars>>

\* get_existing_incident_ids (lines 98-106): the rows come back in any order.
get_existing_incident_ids ==
    /\ pc = "existing"
    /\ \/ /\ Fail("Failed to fetch existing incident IDs")
          /\ UNCHANGED existing_ids
       \/ /\ \E ids \in Orders(StoreIds) : existing_ids' = collect(ids)
          /\ Goto("list")
    /\ UNCHANGED <<dbVars, crossVars, body, current_incidents, new_incidents, i,
                   detail, logVars>>

\* Variant of fetch_incidents that parses without archiving the body.
fetch_incidents_get_no_archive ==
    /\ pc = "list"
    /\ listFetches' = listFetches + 1
    /\ \/ /\ Fail("Failed to fetch incidents")
          /\ UNCHANGED body
       \/ /\ body' = remote
          /\ Goto("parse")
    /\ UNCHANGED <<dbVars, crossVars, existing_ids, current_incidents,
                   new_incidents, i, detail, inFlight, fetched, inserted,
                   archived, parsed, delays>>

\* fetch_incidents, lines 109-123: the GET of the list and the read of its body.
fetch_incidents_get ==
    /\ pc = "list"
    /\ listFetches' = listFetches + 1
    /\ \/ /\ Fail("Failed to fetch incidents")
          /\ UNCHANGED body
       \/ /\ body' = remote
          /\ Goto("archive")
    /\ UNCHANGED <<dbVars, crossVars, existing_ids, current_incidents,
                   new_incidents, i, detail, inFlight, fetched, inserted,
                   archived, parsed, delays>>

\* Variant of store_raw_response whose caller ignores a failed write.
store_raw_response_ignored ==
    /\ pc = "archive"
    /\ \/ /\ Goto("parse")
          /\ UNCHANGED <<incident_history, archived>>
       \/ /\ JsonbCastOk(body)
          /\ incident_history' = Append(incident_history, body)
          /\ archived' = archived + 1
          /\ Goto("parse")
    /\ UNCHANGED <<tables, incidents, crossVars, localVars, inFlight,
                   listFetches, fetched, inserted, parsed, delays>>

\* store_raw_response (lines 133-141), called at line 127.
store_raw_response ==
    /\ pc = "archive"
    /\ \/ /\ Fail("Failed to store raw response: database error")
          /\ UNCHANGED <<incident_history, archived>>
       \/ /\ ~JsonbCastOk(body)
          /\ Fail("Failed to store raw response: invalid input syntax for type json")
          /\ UNCHANGED <<incident_history, archived>>
       \/ /\ JsonbCastOk(body)
          /\ incident_history' = Append(incident_history, body)
          /\ archived' = archived + 1
          /\ Goto("parse")
    /\ UNCHANGED <<tables, incidents, crossVars, localVars, inFlight,
                   listFetches, fetched, inserted, parsed, delays>>

\* Variant of the parse that takes an unparsable body for an empty list.
fetch_incidents_parse_lenient ==
    /\ pc = "parse"
    /\ parsed' = TRUE
    /\ current_incidents' = body.ids
    /\ Goto("filter")
    /\ UNCHANGED <<dbVars, crossVars, existing_ids, body, new_incidents, i,
                   detail, inFlight, listFetches, fetched, inserted, archived,
                   delays>>

\* fetch_incidents, lines 129-130: serde_json::from_str into Vec<Incident>.
fetch_incidents_parse ==
    /\ pc = "parse"
    /\ parsed' = TRUE
    /\ IF body.kind = "incidents"
       THEN /\ current_incidents' = body.ids
            /\ Goto("filter")
       ELSE /\ Fail("Failed to parse incident response")
            /\ UNCHANGED current_incidents
    /\ UNCHANGED <<dbVars, crossVars, existing_ids, body, new_incidents, i,
                   detail, inFlight, listFetches, fetched, inserted, archived,
                   delays>>

\* main, lines 272-278: the filter for new incidents.
filter_new_incidents ==
    /\ pc = "filter"
    /\ new_incidents' = FilterNew(current_incidents, existing_ids)
    /\ i' = 1
    /\ Goto("loop")
    /\ UNCHANGED <<dbVars, crossVars, existing_ids, body, current_incidents,
                   detail, logVars>>

\* process_new_incidents (lines 143-157): the head of the for loop.  With a
\* record left it calls process_incident, which sends the detail request
\* (lines 174-180); with none left it returns Ok and so does main.
process_new_incidents ==
    /\ pc = "loop"
    /\ IF i <= Len(new_incidents)
       THEN /\ fetched' = Append(fetched, new_incidents[i])
            /\ inFlight' = inFlight + 1
            /\ Goto("await")
       ELSE /\ pc' = "done"
            /\ result' = "Ok"
            /\ UNCHANGED <<err, fetched, inFlight>>
    /\ UNCHANGED <<dbVars, crossVars, localVars, listFetches, inserted,
                   archived, parsed, delays>>

\* Variant of fetch_incident_detail that asks again after a failed request.
fetch_incident_detail_retry ==
    /\ pc = "await"
    /\ inFlight' = inFlight - 1
    /\ \/ /\ Goto("loop")
          /\ UNCHANGED detail
       \/ /\ \E ref \in RefJson \cup {RefBad} : detail' = ref
          /\ Goto("store")
    /\ UNCHANGED <<dbVars, crossVars, existing_ids, body, current_incidents,
                   new_incidents, i, listFetches, fetched, inserted, archived,
                   parsed, delays>>

\* fetch_incident_detail (lines 166-195): the answer to the detail request.
\* Any Err goes through the ? of lines 161 and 152 and of line 279.
fetch_incident_detail ==
    /\ pc = "await"
    /\ inFlight' = inFlight - 1
    /\ \/ /\ \E e \in {"Failed to fetch details", "Unexpected status code",
                       "Failed to parse details"} : Fail(e)
          /\ UNCHANGED detail
       \/ /\ \E ref \in RefJson \cup {RefBad} : detail' = ref
          /\ Goto("store")
    /\ UNCHANGED <<dbVars, crossVars, existing_ids, body, current_incidents,
                   new_incidents, i, listFetches, fetched, inserted, archived,
                   parsed, delays>>

\* The primary key of table incidents: an INSERT of a present incident_id is
\* rejected.
KeyFree(id) == id \notin StoreIds

\* Variant of the INSERT that binds another column as incident_id.
InsertIncident_other_id(rows, id, ref) == rows \cup {Row(id + 1, ref)}

\* The INSERT of lines 202-224 once it is accepted.
InsertIncident(rows, id, ref) == rows \cup {Row(id, ref)}

\* Variant of store_incident without the parse of detail.reference.
store_incident_unvalidated ==
    /\ pc = "store"
    /\ LET id == new_incidents[i]
       IN  \/ /\ Fail("Failed to store incident")
              /\ UNCHANGED <<incidents, inserted>>
           \/ /\ KeyFree(id)
              /\ incidents' = InsertIncident(incidents, id, detail)
              /\ inserted' = Append(inserted, id)
              /\ Goto("sleep")
    /\ UNCHANGED <<tables, incident_history, crossVars, localVars, inFlight,
                   listFetches, fetched, archived, parsed, delays>>

\* Variant of store_incident whose INSERT replaces the row of a present id
\* (ON CONFLICT DO UPDATE).
store_incident_upsert ==
    /\ pc = "store"
    /\ LET id == new_incidents[i]
       IN  IF detail = RefBad
           THEN /\ Fail("Failed to parse references in details")
                /\ UNCHANGED <<incidents, inserted>>
           ELSE \/ /\ Fail("Failed to store incident")
                   /\ UNCHANGED <<incidents, inserted>>
                \/ /\ incidents' = {r \in incidents : r.incident_id # id}
                                        \cup {Row(id, detail)}
                   /\ inserted' = Append(inserted, id)
                   /\ Goto("sleep")
    /\ UNCHANGED <<tables, incident_history, crossVars, localVars, inFlight,
                   listFetches, fetched, archived, parsed, delays>>

\* store_incident (lines 197-228).
store_incident ==
    /\ pc = "store"
    /\ LET id == new_incidents[i]
       IN  IF detail = RefBad
           THEN /\ Fail("Failed to parse references in details")
                /\ UNCHANGED <<incidents, inserted>>
           ELSE \/ /\ Fail("Failed to store incident")
                   /\ UNCHANGED <<incidents, inserted>>
                \/ /\ KeyFree(id)
                   /\ incidents' = InsertIncident(incidents, id, detail)
                   /\ inserted' = Append(inserted, id)
                   /\ Goto("sleep")
    /\ UNCHANGED <<tables, incident_history, crossVars, localVars, inFlight,
                   listFetches, fetched, archived, parsed, delays>>

\* Variant of the loop tail that steps over the next record.
sleep_skip_record ==
    /\ pc = "sleep"
    /\ delays' = delays + 1
    /\ i' = i + 2
    /\ detail' = "none"
    /\ Goto("loop")
    /\ UNCHANGED <<dbVars, crossVars, existing_ids, body, current_incidents,
                   new_incidents, inFlight, listFetches, fetched, inserted,
                   archived, parsed>>

\* Variant of the loop tail without the sleep.
sleep_skipped ==
    /\ pc = "sleep"
    /\ i' = i + 1
    /\ detail' = "none"
    /\ Goto("loop")
    /\ UNCHANGED <<dbVars, crossVars, existing_ids, body, current_incidents,
                   new_incidents, inFlight, listFetches, fetched, inserted,
                   archived, parsed, delays>>

\* tokio::time::sleep(request_delay) of line 153, then the next iteration.
sleep ==
    /\ pc = "sleep"
    /\ delays' = delays + 1
    /\ i' = i + 1
    /\ detail' = "none"
    /\ Goto("loop")
    /\ UNCHANGED <<dbVars, crossVars, existing_ids, body, current_incidents,
                   new_incidents, inFlight, listFetches, fetched, inserted,
                   archived, parsed>>

\* The steps of one run of main().
main ==
    \/ setup_database
    \/ verify_tables
    \/ get_existing_incident_ids
    \/ fetch_incidents_get
    \/ store_raw_response
    \/ fetch_incidents_parse
    \/ filter_new_incidents
    \/ process_new_incidents
    \/ fetch_incident_detail
    \/ store_incident
    \/ sleep

\* Any number of runs (up to MaxRuns), the registry changing between them.
Next ==
    \/ StartRun
    \/ RemoteChange
    \/ main

Spec == Init /\ [][Next]_vars

\* One run of the binary.
StartOnce ==
    /\ run = 0
    /\ StartRun

NextRun ==
    \/ StartOnce
    \/ main

SpecRun == Init /\ [][NextRun]_vars

\* One run whose steps are scheduled fairly: every await of main() returns.
SpecRunFair == SpecRun /\ WF_vars(main)

\* The end-to-end scenario of the specification: the store holds 1 and 2 and
\* the registry lists 1, 2, 3, 4.
InitE2E ==
    /\ tables = RequiredTables
    /\ incidents = {Row(1, "j1"), Row(2, "j1")}
    /\ incident_history = <<>>
    /\ remote = [kind |-> "incidents", ids |-> <<1, 2, 3, 4>>]
    /\ run = 0
    /\ pc = "idle"
    /\ result = "none"
    /\ err = "none"
    /\ existing_ids = {}
    /\ body = NoBody
    /\ current_incidents = <<>>
    /\ new_incidents = <<>>
    /\ i = 0
    /\ detail = "none"
    /\ inFlight = 0
    /\ listFetches = 0
    /\ fetched = <<>>
    /\ inserted = <<>>
    /\ archived = 0
    /\ parsed = FALSE
    /\ delays = 0
    /\ remoteChanged = FALSE
    /\ upstreamSame = TRUE
    /\ prevOk = FALSE
    /\ pending = {}

SpecE2E == InitE2E /\ [][Next]_vars

TypeOK ==
    /\ tables \subseteq RequiredTables
    /\ run \in 0..MaxRuns
    /\ result \in {"none", "Ok", "Err"}
    /\ inFlight \in 0..1

\* ------------------------------------------------------------ properties

\* Error contexts of one record: fetch_incident_detail and store_incident.
DetailFetchErrors ==
    {"Failed to fetch details", "Unexpected status code", "Failed to parse details"}

RecordErrors ==
    DetailFetchErrors
        \cup {"Failed to parse references in details", "Failed to store incident"}

ArchiveDbError == "Failed to store raw response: database error"

\* The subsequence of T whose ids are not in S, built from the end of T.
RECURSIVE MinusById(_, _)
MinusById(T, S) ==
    IF T = <<>> THEN <<>>
    ELSE LET rest == MinusById(SubSeq(T, 1, Len(T) - 1), S)
             last == T[Len(T)]
         IN  IF last \in S THEN rest ELSE Append(rest, last)

\* C1: when the run ended because the processing of one new record failed,
\* every new record with another id is persisted by the end of the run.
PerRecordIsolation ==
    (pc = "done" /\ err \in RecordErrors) =>
        \A k \in 1..Len(new_incidents) :
            new_incidents[k] # new_incidents[i] => new_incidents[k] \in StoreIds

\* C2: a run whose setup steps all succeeded (it reached the loop over the
\* new records) ends with main returning Ok.
ExitStatusOkAfterSetup ==
    (pc = "done" /\ i >= 1) => result = "Ok"

\* C3: new_incidents is the subsequence of the parsed snapshot whose ids were
\* not in the store when the run read it, in snapshot order, whatever the
\* order in which the ids were read.
NewRecordFilter ==
    (i >= 1 /\ pc # "idle") =>
        new_incidents = MinusById(current_incidents, StoreIds \ Range(inserted))

NewRecordFilterWitness ==
    /\ pc = "loop"
    /\ i = 1
    /\ Cardinality(existing_ids) >= 2
    /\ Len(current_incidents) = 3
    /\ Len(new_incidents) = 1
    /\ current_incidents[2] = new_incidents[1]

\* C4 as stated: a second run that is served the same list inserts no row.
\* (The archive holds nothing of the first run: it ended before it parsed
\* the list, so it saw no detail response that could differ in the second.)
IdempotenceUnconditional ==
    (run = 2 /\ upstreamSame /\ Len(incident_history) = archived)
        => inserted = <<>>

\* C4 amended: after a run that returned Ok, a run that is served the same
\* list finds no new record and inserts no row.
IdempotenceAfterOk ==
    (run >= 2 /\ upstreamSame /\ prevOk /\ pc \in {"loop", "done"})
        => (new_incidents = <<>> /\ inserted = <<>> /\ fetched = <<>>)

IdempotenceAfterOkWitness ==
    /\ run = 2
    /\ pc = "done"
    /\ result = "Ok"
    /\ upstreamSame
    /\ prevOk
    /\ Len(current_incidents) >= 2
    /\ \E r \in incidents :
          r.references = "j2" /\ r.incident_id \in Range(current_incidents)

\* C5: the parse of the list body is attempted only after the body is in the
\* archive, and a run that got a body from the list endpoint and met no
\* database error on the archive write ends with that body archived; a body
\* of the wrong shape leaves one archive row and no incident row.
ArchiveUnconditional ==
    /\ parsed =>
          (archived = 1 /\ incident_history[Len(incident_history)] = body)
    /\ (pc = "done" /\ body # NoBody /\ err # ArchiveDbError) =>
          (archived = 1 /\ incident_history[Len(incident_history)] = body)
    /\ (pc = "done" /\ body.kind = "mismatch" /\ err # ArchiveDbError) =>
          (archived = 1 /\ inserted = <<>>)

\* C6: every step leaves table incidents as it is or adds one row whose
\* incident_id was not present; no row is removed or changed.
MonotoneStore ==
    [][\/ incidents' = incidents
       \/ \E r \in incidents' \ incidents :
             /\ r.incident_id \notin StoreIds
             /\ incidents' = incidents \cup {r}]_vars

MonotoneStoreWitness ==
    /\ run = 2
    /\ Len(inserted) >= 1
    /\ Cardinality(incidents) >= 3
    /\ \E r \in incidents : r.references = "j2"

\* C7: with a required table missing no request is sent and no row is
\* written, and the run ends with an error at verify_tables at the latest.
FailFastSchema ==
    tables # RequiredTables =>
        /\ listFetches = 0
        /\ fetched = <<>>
        /\ inserted = <<>>
        /\ archived = 0
        /\ incident_history = <<>>
        /\ pc \in {"idle", "connect", "verify", "done"}
        /\ pc = "done" => result = "Err"

FailFastSchemaWitness ==
    /\ Cardinality(tables) = 1
    /\ pc = "done"
    /\ err = "Missing required database tables"

\* C8: when the run ended at a record whose reference is not JSON, that
\* record has no row and every record with another id, before or after it,
\* was fetched and inserted.
ReferenceValidationIsolated ==
    (pc = "done" /\ err = "Failed to parse references in details") =>
        /\ inserted = SubSeq(new_incidents, 1, i - 1)
        /\ \A k \in 1..Len(new_incidents) :
              new_incidents[k] # new_incidents[i] =>
                  /\ new_incidents[k] \in Range(fetched)
                  /\ new_incidents[k] \in Range(inserted)

\* C9: a detail request is sent only after every earlier one was followed by
\* a sleep, so N requests see at least N-1 sleeps, and at most one detail
\* request is in flight.
RateLimited ==
    /\ Len(fetched) <= delays + 1
    /\ delays <= Len(fetched)
    /\ inFlight <= 1
    /\ pc = "loop" => inFlight = 0

RateLimitedWitness ==
    /\ Len(fetched) = 3
    /\ delays = 2
    /\ inFlight = 1

\* C10: store {1,2}, list 1,2,3,4, detail of 3 fetched and stored, detail
\* fetch of 4 failed: the store ends as {1,2,3}, with one new archive row,
\* no detail request for 1 or 2, and main returning Ok.
EndToEndScenario ==
    (/\ run = 1
     /\ pc = "done"
     /\ existing_ids = {1, 2}
     /\ current_incidents = <<1, 2, 3, 4>>
     /\ fetched = <<3, 4>>
     /\ inserted = <<3>>
     /\ err \in DetailFetchErrors)
        => /\ StoreIds = {1, 2, 3}
           /\ archived = 1
           /\ Len(incident_history) = 1
           /\ Range(fetched) \cap {1, 2} = {}
           /\ result = "Ok"

\* No two positions of a sequence hold the same id.
NoRepeat(q) == \A a, b \in 1..Len(q) : q[a] = q[b] => a = b

\* The list request failed, or it returned a body that is no list of
\* incident summaries.
ListFailed ==
    \/ err = "Failed to fetch incidents"
    \/ body # NoBody /\ body.kind # "incidents"

\* C11: when the list endpoint is unreachable or its body is no list of
\* incident summaries, the run ends with an error and processes no record:
\* no new-record set, no detail request, no row inserted.
FatalListFailure ==
    ListFailed =>
        /\ new_incidents = <<>>
        /\ fetched = <<>>
        /\ inserted = <<>>
        /\ pc \in {"archive", "parse", "done"}
        /\ pc = "done" => result = "Err"

FatalListFailureWitness ==
    /\ pc = "done"
    /\ err = "Failed to parse incident response"
    /\ body.kind = "mismatch"
    /\ archived = 1
    /\ incidents # {}

\* C12: the first detail request and the first insert of a run come after
\* the archive row of that run is written, and no step removes or changes a
\* row of the archive.
ArchiveBeforeProcessing ==
    /\ []((fetched # <<>> \/ inserted # <<>>) =>
            (archived = 1 /\ incident_history[Len(incident_history)] = body))
    /\ [][/\ Len(incident_history') >= Len(incident_history)
          /\ SubSeq(incident_history', 1, Len(incident_history)) = incident_history]_vars

ArchiveBeforeProcessingWitness ==
    /\ pc = "done"
    /\ result = "Err"
    /\ err \in {"Failed to fetch details", "Failed to store incident"}
    /\ Len(fetched) >= 2
    /\ incident_history = <<body>>

\* C13: no detail request and no insert is issued for an id that was in the
\* store when the run read the existing ids.
NoRefetchOfStored ==
    (listFetches >= 1) =>
        /\ existing_ids = StoreIds \ Range(inserted)
        /\ Range(fetched) \cap existing_ids = {}
        /\ Range(inserted) \cap existing_ids = {}

NoRefetchOfStoredWitness ==
    /\ pc = "done"
    /\ result = "Ok"
    /\ Cardinality(existing_ids) >= 1
    /\ Range(current_incidents) \cap existing_ids # {}
    /\ Len(fetched) >= 1
    /\ Len(inserted) >= 1

\* C14: within one run no id is detail-fetched twice and no id is inserted
\* twice, whatever the snapshot lists.
NoDoubleProcessing ==
    /\ NoRepeat(fetched)
    /\ NoRepeat(inserted)

\* C15: a row is inserted only by store_incident for the record whose detail
\* was fetched and whose reference is JSON; a record that failed has no row
\* of its own, was attempted once, and nothing is fetched or inserted after
\* the failure.
RecordStateMachine ==
    /\ [][incidents' # incidents =>
            /\ pc = "store"
            /\ detail \in RefJson
            /\ fetched[Len(fetched)] = new_incidents[i]
            /\ incidents' = incidents \cup {Row(new_incidents[i], detail)}
            /\ inserted' = Append(inserted, new_incidents[i])]_vars
    /\ []((pc = "done" /\ err \in RecordErrors) =>
            /\ inserted = SubSeq(new_incidents, 1, i - 1)
            /\ fetched = SubSeq(new_incidents, 1, i))
    /\ [][result = "Err" => (fetched' = fetched /\ incidents' = incidents)]_vars

RecordStateMachineWitness ==
    /\ pc = "done"
    /\ err = "Failed to parse references in details"
    /\ i = 2
    /\ Len(inserted) = 1
    /\ \E r \in incidents : r.incident_id = inserted[1] /\ r.references = "j2"

\* C17: when the archive write did not store the body, the run has ended
\* with an error, has not parsed the body, and has sent no detail request
\* and inserted no row.
ArchiveFailureFatal ==
    (body # NoBody /\ pc # "archive" /\ archived = 0) =>
        /\ pc = "done"
        /\ result = "Err"
        /\ ~parsed
        /\ current_incidents = <<>>
        /\ fetched = <<>>
        /\ inserted = <<>>

ArchiveFailureFatalWitness ==
    /\ pc = "done"
    /\ err = ArchiveDbError
    /\ body.kind = "incidents"
    /\ Range(body.ids) \ StoreIds # {}

\* C18: the ids detail-fetched so far are a prefix of new_incidents, and the
\* ids inserted so far are that prefix or that prefix without its last id.
PrefixInvariant ==
    /\ Len(fetched) <= Len(new_incidents)
    /\ fetched = SubSeq(new_incidents, 1, Len(fetched))
    /\ \/ inserted = fetched
       \/ inserted = SubSeq(fetched, 1, Len(fetched) - 1)

PrefixInvariantWitness ==
    /\ pc = "done"
    /\ Len(new_incidents) = 3
    /\ Len(fetched) = 3
    /\ Len(inserted) = 2

\* C19: every id the run inserted is listed in its parsed snapshot and was
\* not among the existing ids it read, so the store holds only existing ids
\* and snapshot ids.
InsertProvenance ==
    /\ Range(inserted) \subseteq Range(current_incidents) \ existing_ids
    /\ (listFetches >= 1) =>
          StoreIds \subseteq existing_ids \cup Range(current_incidents)

InsertProvenanceWitness ==
    /\ pc = "done"
    /\ Len(inserted) >= 2
    /\ existing_ids # {}
    /\ Range(current_incidents) \cap existing_ids # {}

\* C16: an id the previous run found new and left without a row is in
\* new_incidents of this run when this run's snapshot lists it, and no step
\* removes or changes a row of incidents.
RetryOnNextRun ==
    /\ []((run >= 2 /\ i >= 1) =>
            \A id \in pending \cap Range(current_incidents) :
                id \in Range(new_incidents))
    /\ [][incidents \subseteq incidents']_vars

RetryOnNextRunWitness ==
    /\ run = 2
    /\ pc = "done"
    /\ ~prevOk
    /\ Cardinality(pending) >= 2
    /\ pending \cap Range(inserted) # {}
    /\ pending \ Range(current_incidents) # {}
    /\ \E r \in incidents : r.incident_id \notin pending \cup existing_ids

\* C20: a run that started ends, and it sends at most one list request,
\* writes at most one archive row, and sends no more detail requests and
\* inserts no more rows than new_incidents has records.
RunTerminates ==
    /\ (pc = "connect") ~> (pc = "done")
    /\ [](/\ listFetches <= 1
          /\ archived <= 1
          /\ Len(fetched) <= Len(new_incidents)
          /\ Len(inserted) <= Len(new_incidents))

RunTerminatesWitness ==
    /\ pc = "done"
    /\ result = "Ok"
    /\ listFetches = 1
    /\ archived = 1
    /\ Len(new_incidents) = 3
    /\ Len(fetched) = 3
    /\ Len(inserted) = 3
====
